---- MODULE Spec2Model ----
(***************************************************************************)
(* Model of src/src/main.rs: a command-line file watcher.  parse_arguments *)
(* turns the command line into Settings; main creates a notify watcher     *)
(* that sends DebouncedEvent values over an mpsc channel, and loops over   *)
(* the receiver, printing the events whose kind was asked for to standard  *)
(* output and error records to standard error.  When the channel closes    *)
(* the loop ends and the process exits with status 1.                      *)
(*                                                                         *)
(* The debouncing itself (raw records -> DebouncedEvent) happens inside    *)
(* the notify crate, which is not part of this repository: the model       *)
(* starts at the channel, where already debounced events arrive.           *)
(*                                                                         *)
(* Writes to standard output and standard error are taken to succeed       *)
(* (println! panics when one fails), and the process is not killed from    *)
(* outside: the source handles no signal.                                  *)
(***************************************************************************)
EXTENDS Integers, Sequences, FiniteSets, TLC

(* ----------------------------- bounds --------------------------------- *)

\* Total number of inputs of one run: command-line values given (PATH,
\* --delay, each --operation value) plus events the watcher sends.
MaxInput == 3

(* ------------------------- values and inputs --------------------------- *)

\* Option::None, for Option<PathBuf> and for an argument that is not given.
None == "None"

Paths == {"/a", "/b"}

ErrorMessages == {"disk full"}

\* env::current_dir() when PATH is not given.
CurrentDir == "/cwd"

\* PATH values a user may give.
PathArgs == {"/w"}

\* --delay values a user may give, as the characters of the argument.
DelayArgs == {<<"2", "5">>, <<"0">>, <<"2", "x">>}

\* default_value("100") of the delay argument.
DefaultDelay == <<"1", "0", "0">>

\* default_value("all") of the operations argument.
DefaultOperations == <<"all">>

\* possible_event_values: clap rejects any other value before the match runs.
possible_event_values == <<"all", "create", "write", "chmod", "remove", "rename">>

\* enum Events.
Events == {"Create", "Write", "Chmod", "Remove", "Rename"}

\* notify::DebouncedEvent: every variant.  The variants whose path is printed
\* range over both paths; a notice, whose path the match ignores, an error
\* and a rename carry fixed ones.
DebouncedEvent ==
    {[tag |-> t, path |-> "/a"] : t \in {"NoticeWrite", "NoticeRemove"}}
    \cup {[tag |-> t, path |-> p] :
            t \in {"Create", "Write", "Chmod", "Remove"}, p \in Paths}
    \cup {[tag |-> "Rename", from |-> "/a", to |-> "/b"]}
    \cup {[tag |-> "Rescan"]}
    \cup {[tag |-> "Error", error |-> m, path |-> p] :
            m \in ErrorMessages, p \in {None, "/a"}}

\* Sequences over S of length at most n.
SeqUpTo(S, n) == UNION {[1..k -> S] : k \in 0..n}

Range(s) == {s[i] : i \in DOMAIN s}

\* Number of command-line values given in a command line.
ArgCount(a) ==
    (IF a.path = None THEN 0 ELSE 1)
    + Len(a.delay)
    + Len(a.operations)

\* The command lines of the model.
Argvs ==
    {a \in [path : PathArgs \cup {None},
            delay : {<<>>} \cup {<<d>> : d \in DelayArgs},
            operations : SeqUpTo(Range(possible_event_values), MaxInput)] :
        ArgCount(a) =< MaxInput}

(* ------------------------------ state ---------------------------------- *)

VARIABLES
    pc,           \* where the process is: start, setup, running, or ended
    argv,         \* the command line: PATH or None, delay <<>> or <<value>>,
                  \* and the operation values
    settings,     \* <<>> until parse_arguments returns, then <<Settings>>
    tx_alive,     \* the watcher still holds event_tx
    chan,         \* events sent and not yet received
    received,     \* history: the events the loop has taken, in order
    stdout,       \* lines printed with println!
    stderr,       \* lines printed with eprintln!, by clap or by a panic
    exit_status   \* <<>> while the process runs, then <<status>>

vars == <<pc, argv, settings, tx_alive, chan, received, stdout, stderr, exit_status>>

(* --------------------------- parse_arguments --------------------------- *)

Digits == <<"0", "1", "2", "3", "4", "5", "6", "7", "8", "9">>

IsDigit(c) == \E d \in DOMAIN Digits : Digits[d] = c

DigitValue(c) == (CHOOSE d \in DOMAIN Digits : Digits[d] = c) - 1

RECURSIVE DecimalValue(_)
DecimalValue(s) ==
    IF s = <<>> THEN 0
    ELSE 10 * DecimalValue(SubSeq(s, 1, Len(s) - 1)) + DigitValue(s[Len(s)])

\* value_t!(.., u64): <<n>> for a decimal number (an optional leading +),
\* <<>> for anything else.
ParseU64(s) ==
    LET digits == IF s # <<>> /\ s[1] = "+" THEN Tail(s) ELSE s
    IN  IF digits # <<>> /\ \A i \in DOMAIN digits : IsDigit(digits[i])
        THEN <<DecimalValue(digits)>>
        ELSE <<>>

EventsForAllButRename(event_string) ==
    CASE event_string = "create" -> <<"Create">>
      [] event_string = "write"  -> <<"Write">>
      [] event_string = "chmod"  -> <<"Chmod">>
      [] event_string = "remove" -> <<"Remove">>
      [] event_string = "rename" -> <<"Rename">>
      [] event_string = "all"    -> <<"Create", "Write", "Chmod", "Remove">>
      [] OTHER                   -> <<>>

\* The arms of the match on one operation value: the kinds it pushes.
EventsFor(event_string) ==
    CASE event_string = "create" -> <<"Create">>
      [] event_string = "write"  -> <<"Write">>
      [] event_string = "chmod"  -> <<"Chmod">>
      [] event_string = "remove" -> <<"Remove">>
      [] event_string = "rename" -> <<"Rename">>
      [] event_string = "all"    -> <<"Create", "Write", "Chmod", "Remove", "Rename">>
      [] OTHER                   -> <<>>

\* The loop over matches.values_of("operations").
RECURSIVE PushEvents(_)
PushEvents(operations) ==
    IF operations = <<>> THEN <<>>
    ELSE EventsFor(Head(operations)) \o PushEvents(Tail(operations))

\* What clap hands to the code for each argument: the value given or the
\* default.
OperationValues(a) == IF a.operations = <<>> THEN DefaultOperations ELSE a.operations

DelayValue(a) == IF a.delay = <<>> THEN DefaultDelay ELSE a.delay[1]

WatchPath(a) == IF a.path = None THEN CurrentDir ELSE a.path

(* ------------------------------ main loop ------------------------------ *)

ContainsAlways(v, x) == TRUE

\* Vec::contains.
Contains(v, x) == \E i \in DOMAIN v : v[i] = x

PrintlnFirst(out, line) == <<line>> \o out

\* println! and eprintln!: one more line at the end of the stream.  A line
\* is the literal pieces of the format string and its arguments, in order.
Println(out, line) == Append(out, line)

Eprintln(err, line) == Append(err, line)

\* How often x occurs in v.
Occurrences(v, x) == Cardinality({i \in DOMAIN v : v[i] = x})

RECURSIVE Repeat(_, _, _)
Repeat(out, line, n) == IF n = 0 THEN out ELSE Repeat(Append(out, line), line, n - 1)

HandleEventPerOccurrence(event, events_listened_for, out, err) ==
    CASE event.tag \in {"NoticeWrite", "NoticeRemove", "Rescan"} ->
            [stdout |-> out, stderr |-> err]
      [] event.tag \in {"Create", "Write", "Chmod", "Remove"} ->
            [stdout |-> Repeat(out,
                               <<CASE event.tag = "Create" -> "create "
                                   [] event.tag = "Write"  -> "write "
                                   [] event.tag = "Chmod"  -> "chmod "
                                   [] event.tag = "Remove" -> "remove ",
                                 event.path>>,
                               Occurrences(events_listened_for, event.tag)),
             stderr |-> err]
      [] event.tag = "Rename" ->
            [stdout |-> Repeat(out, <<"rename ", event.from, " => ", event.to>>,
                               Occurrences(events_listened_for, "Rename")),
             stderr |-> err]
      [] event.tag = "Error" /\ event.path = None ->
            [stdout |-> out, stderr |-> Eprintln(err, <<"error: ", event.error>>)]
      [] event.tag = "Error" /\ event.path # None ->
            [stdout |-> out,
             stderr |-> Eprintln(err, <<"error at ", event.path, ": ", event.error>>)]

HandleEventSwapped(event, events_listened_for, out, err) ==
    CASE event.tag \in {"NoticeWrite", "NoticeRemove", "Rescan"} ->
            [stdout |-> out, stderr |-> err]
      [] event.tag = "Create" ->
            [stdout |-> IF Contains(events_listened_for, "Create")
                        THEN Println(out, <<"write ", event.path>>) ELSE out,
             stderr |-> err]
      [] event.tag = "Write" ->
            [stdout |-> IF Contains(events_listened_for, "Write")
                        THEN Println(out, <<"create ", event.path>>) ELSE out,
             stderr |-> err]
      [] event.tag = "Chmod" ->
            [stdout |-> IF Contains(events_listened_for, "Chmod")
                        THEN Println(out, <<"chmod ", event.path>>) ELSE out,
             stderr |-> err]
      [] event.tag = "Remove" ->
            [stdout |-> IF Contains(events_listened_for, "Remove")
                        THEN Println(out, <<"remove ", event.path>>) ELSE out,
             stderr |-> err]
      [] event.tag = "Rename" ->
            [stdout |-> IF Contains(events_listened_for, "Rename")
                        THEN Println(out, <<"rename ", event.to, " => ", event.from>>)
                        ELSE out,
             stderr |-> err]
      [] event.tag = "Error" /\ event.path = None ->
            [stdout |-> out, stderr |-> Eprintln(err, <<"error: ", event.error>>)]
      [] event.tag = "Error" /\ event.path # None ->
            [stdout |-> out,
             stderr |-> Eprintln(err, <<"error at ", event.path, ": ", event.error>>)]

HandleEventPathless(event, events_listened_for, out, err) ==
    CASE event.tag \in {"NoticeWrite", "NoticeRemove", "Rescan"} ->
            [stdout |-> out, stderr |-> err]
      [] event.tag \in {"Create", "Write", "Chmod", "Remove"} ->
            [stdout |-> IF Contains(events_listened_for, event.tag)
                        THEN Println(out,
                                     <<CASE event.tag = "Create" -> "create "
                                         [] event.tag = "Write"  -> "write "
                                         [] event.tag = "Chmod"  -> "chmod "
                                         [] event.tag = "Remove" -> "remove ",
                                       event.path>>)
                        ELSE out,
             stderr |-> err]
      [] event.tag = "Rename" ->
            [stdout |-> IF Contains(events_listened_for, "Rename")
                        THEN Println(out, <<"rename ", event.from, " => ", event.to>>)
                        ELSE out,
             stderr |-> err]
      [] event.tag = "Error" ->
            [stdout |-> out, stderr |-> Eprintln(err, <<"error: ", event.error>>)]

HandleEventNoisy(event, events_listened_for, out, err) ==
    CASE event.tag = "NoticeWrite" ->
            [stdout |-> IF Contains(events_listened_for, "Write")
                        THEN Println(out, <<"write ", event.path>>) ELSE out,
             stderr |-> err]
      [] event.tag = "NoticeRemove" ->
            [stdout |-> IF Contains(events_listened_for, "Remove")
                        THEN Println(out, <<"remove ", event.path>>) ELSE out,
             stderr |-> err]
      [] event.tag = "Rescan" ->
            [stdout |-> out, stderr |-> err]
      [] event.tag \in {"Create", "Write", "Chmod", "Remove"} ->
            [stdout |-> IF Contains(events_listened_for, event.tag)
                        THEN Println(out,
                                     <<CASE event.tag = "Create" -> "create "
                                         [] event.tag = "Write"  -> "write "
                                         [] event.tag = "Chmod"  -> "chmod "
                                         [] event.tag = "Remove" -> "remove ",
                                       event.path>>)
                        ELSE out,
             stderr |-> err]
      [] event.tag = "Rename" ->
            [stdout |-> IF Contains(events_listened_for, "Rename")
                        THEN Println(out, <<"rename ", event.from, " => ", event.to>>)
                        ELSE out,
             stderr |-> err]
      [] event.tag = "Error" /\ event.path = None ->
            [stdout |-> out, stderr |-> Eprintln(err, <<"error: ", event.error>>)]
      [] event.tag = "Error" /\ event.path # None ->
            [stdout |-> out,
             stderr |-> Eprintln(err, <<"error at ", event.path, ": ", event.error>>)]

\* The match on one received event: the two streams after it.
HandleEvent(event, events_listened_for, out, err) ==
    CASE event.tag = "NoticeWrite" ->
            [stdout |-> out, stderr |-> err]
      [] event.tag = "NoticeRemove" ->
            [stdout |-> out, stderr |-> err]
      [] event.tag = "Create" ->
            [stdout |-> IF Contains(events_listened_for, "Create")
                        THEN Println(out, <<"create ", event.path>>) ELSE out,
             stderr |-> err]
      [] event.tag = "Write" ->
            [stdout |-> IF Contains(events_listened_for, "Write")
                        THEN Println(out, <<"write ", event.path>>) ELSE out,
             stderr |-> err]
      [] event.tag = "Chmod" ->
            [stdout |-> IF Contains(events_listened_for, "Chmod")
                        THEN Println(out, <<"chmod ", event.path>>) ELSE out,
             stderr |-> err]
      [] event.tag = "Remove" ->
            [stdout |-> IF Contains(events_listened_for, "Remove")
                        THEN Println(out, <<"remove ", event.path>>) ELSE out,
             stderr |-> err]
      [] event.tag = "Rename" ->
            [stdout |-> IF Contains(events_listened_for, "Rename")
                        THEN Println(out, <<"rename ", event.from, " => ", event.to>>)
                        ELSE out,
             stderr |-> err]
      [] event.tag = "Rescan" ->
            [stdout |-> out, stderr |-> err]
      [] event.tag = "Error" /\ event.path = None ->
            [stdout |-> out, stderr |-> Eprintln(err, <<"error: ", event.error>>)]
      [] event.tag = "Error" /\ event.path # None ->
            [stdout |-> out,
             stderr |-> Eprintln(err, <<"error at ", event.path, ": ", event.error>>)]

(* ------------------------------ actions -------------------------------- *)

Init ==
    /\ pc = "start"
    /\ argv \in Argvs
    /\ settings = <<>>
    /\ tx_alive = FALSE
    /\ chan = <<>>
    /\ received = <<>>
    /\ stdout = <<>>
    /\ stderr = <<>>
    /\ exit_status = <<>>

\* env::current_dir().unwrap() panics when PATH is not given and the
\* working directory cannot be read.
CurrentDirFailed ==
    /\ pc = "start"
    /\ argv.path = None
    /\ pc' = "panicked"
    /\ stderr' = Eprintln(stderr, <<"panic: current_dir">>)
    /\ exit_status' = <<101>>
    /\ UNCHANGED <<argv, settings, tx_alive, chan, received, stdout>>

\* parse_arguments: Settings, or clap's error exit when the delay is no u64.
ParseArguments ==
    /\ pc = "start"
    /\ LET delay_ms == ParseU64(DelayValue(argv))
       IN  IF delay_ms = <<>>
           THEN /\ pc' = "usage_error"
                /\ stderr' = Eprintln(stderr, <<"clap: invalid value for delay">>)
                /\ exit_status' = <<1>>
                /\ UNCHANGED settings
           ELSE /\ pc' = "setup"
                /\ settings' = <<[watch_path |-> WatchPath(argv),
                                  delay      |-> delay_ms[1],
                                  events     |-> PushEvents(OperationValues(argv))]>>
                /\ UNCHANGED <<stderr, exit_status>>
    /\ UNCHANGED <<argv, tx_alive, chan, received, stdout>>

\* notify::watcher(..) and watcher.watch(..) succeed: the watcher owns
\* event_tx from here on.
WatcherStarted ==
    /\ pc = "setup"
    /\ pc' = "running"
    /\ tx_alive' = TRUE
    /\ UNCHANGED <<argv, settings, chan, received, stdout, stderr, exit_status>>

\* One of the two fails and its unwrap() panics.
WatcherFailed ==
    /\ pc = "setup"
    /\ pc' = "panicked"
    /\ stderr' = Eprintln(stderr, <<"panic: watcher">>)
    /\ exit_status' = <<101>>
    /\ UNCHANGED <<argv, settings, tx_alive, chan, received, stdout>>

\* The watcher sends one event over event_tx (the channel is unbounded).
Send(event) ==
    /\ pc = "running"
    /\ tx_alive
    /\ ArgCount(argv) + Len(received) + Len(chan) < MaxInput
    /\ chan' = Append(chan, event)
    /\ UNCHANGED <<pc, argv, settings, tx_alive, received, stdout, stderr, exit_status>>

\* The watcher drops event_tx (its thread ended): the channel is closed, the
\* events already sent stay receivable.
Disconnect ==
    /\ pc = "running"
    /\ tx_alive
    /\ tx_alive' = FALSE
    /\ UNCHANGED <<pc, argv, settings, chan, received, stdout, stderr, exit_status>>

ReceiveHalting ==
    /\ pc = "running"
    /\ chan # <<>>
    /\ LET event == Head(chan)
           after == HandleEvent(event, settings[1].events, stdout, stderr)
       IN  /\ stdout' = after.stdout
           /\ stderr' = after.stderr
           /\ received' = Append(received, event)
           /\ chan' = Tail(chan)
           /\ IF event.tag = "Error"
              THEN pc' = "terminated" /\ exit_status' = <<1>>
              ELSE UNCHANGED <<pc, exit_status>>
    /\ UNCHANGED <<argv, settings, tx_alive>>

\* One iteration of `for event in event_rx`.
Receive ==
    /\ pc = "running"
    /\ chan # <<>>
    /\ LET event == Head(chan)
           after == HandleEvent(event, settings[1].events, stdout, stderr)
       IN  /\ stdout' = after.stdout
           /\ stderr' = after.stderr
           /\ received' = Append(received, event)
           /\ chan' = Tail(chan)
    /\ UNCHANGED <<pc, argv, settings, tx_alive, exit_status>>

\* The iterator ends: the channel is empty and closed.
StreamEnd ==
    /\ pc = "running"
    /\ chan = <<>>
    /\ ~tx_alive
    /\ stderr' = Eprintln(stderr, <<"Notify has crashed">>)
    /\ exit_status' = <<1>>
    /\ pc' = "terminated"
    /\ UNCHANGED <<argv, settings, tx_alive, chan, received, stdout>>

Next ==
    \/ CurrentDirFailed
    \/ ParseArguments
    \/ WatcherStarted
    \/ WatcherFailed
    \/ \E event \in DebouncedEvent : Send(event)
    \/ Disconnect
    \/ Receive
    \/ StreamEnd

Spec == Init /\ [][Next]_vars

\* The main thread is never held up except inside the receive: an iteration
\* that can run does run, and so does the end of the loop.
LiveSpec == Spec /\ WF_vars(Receive) /\ WF_vars(StreamEnd)

(* ---------------------- vocabulary of the claims ----------------------- *)

\* interestedKinds: the kinds the configured list holds, none before the
\* command line is parsed.
InterestedKinds == IF settings = <<>> THEN {} ELSE Range(settings[1].events)

\* The operation values asked for: those given, or `all` when none is.
Requested == IF argv.operations = <<>> THEN {"all"} ELSE Range(argv.operations)

\* The kind each operation value names.
KindNamed ==
    [create |-> "Create", write |-> "Write", chmod |-> "Chmod",
     remove |-> "Remove", rename |-> "Rename"]

\* The logical event a received Create, Write, Chmod, Remove or Rename is.
LogicalEvent(e) ==
    IF e.tag = "Rename"
    THEN [kind |-> "Rename", primary |-> e.from, secondary |-> e.to]
    ELSE [kind |-> e.tag, primary |-> e.path, secondary |-> None]

\* The logical event a line of standard output reports: its first piece is
\* the lower-case kind, then the primary path and, after " => ", the
\* destination.
DeliveredEvent(line) ==
    [kind      |-> CASE line[1] = "create " -> "Create"
                     [] line[1] = "write "  -> "Write"
                     [] line[1] = "chmod "  -> "Chmod"
                     [] line[1] = "remove " -> "Remove"
                     [] line[1] = "rename " -> "Rename"
                     [] OTHER               -> "Unknown",
     primary   |-> line[2],
     secondary |-> IF Len(line) = 4 /\ line[3] = " => " THEN line[4] ELSE None]

\* The record a line of standard error reports: "error: <message>" or
\* "error at <path>: <message>".
ReportedError(line) ==
    CASE Len(line) = 2 /\ line[1] = "error: " ->
            [message |-> line[2], path |-> None]
      [] Len(line) = 4 /\ line[1] = "error at " /\ line[3] = ": " ->
            [message |-> line[4], path |-> line[2]]
      [] OTHER ->
            [message |-> None, path |-> None]

Delivered == [i \in DOMAIN stdout |-> DeliveredEvent(stdout[i])]

IsWanted(e) == e.tag \in InterestedKinds

IsLogical(e) == e.tag \in Events

\* The logical events of a sequence of received events, in order.
LogicalEvents(s) == [i \in DOMAIN s |-> LogicalEvent(s[i])]

\* A step that takes one event from the channel, and that event.
Received == received' # received

Last(s) == s[Len(s)]

(* -------------------------------- claims ------------------------------- *)

\* C1: every logical event printed to standard output has a kind that is in
\* interestedKinds.
C1_OnlyRequestedKinds ==
    \A i \in DOMAIN stdout : Delivered[i].kind \in InterestedKinds

\* An event of a kind that was not asked for was received and dropped, and
\* another one was delivered.
C1_Witness ==
    /\ stdout # <<>>
    /\ \E i \in DOMAIN received :
          IsLogical(received[i]) /\ received[i].tag \notin InterestedKinds

\* C2: a received Create, Write, Chmod, Remove or Rename whose kind is in
\* interestedKinds adds exactly one line to standard output, reporting the
\* same kind and the same path or paths; one whose kind is not adds nothing
\* to either stream.
C2_DeliveredOnceUnchanged ==
    [][Received /\ IsLogical(Last(received')) =>
          IF Last(received').tag \in InterestedKinds
          THEN /\ Len(stdout') = Len(stdout) + 1
               /\ SubSeq(stdout', 1, Len(stdout)) = stdout
               /\ DeliveredEvent(Last(stdout')) = LogicalEvent(Last(received'))
               /\ stderr' = stderr
          ELSE /\ stdout' = stdout
               /\ stderr' = stderr]_vars

\* A Rename that was asked for has just been delivered after an event that
\* was dropped.
C2_Witness ==
    /\ Len(received) = 2
    /\ IsLogical(received[1]) /\ received[1].tag \notin InterestedKinds
    /\ received[2].tag = "Rename" /\ "Rename" \in InterestedKinds
    /\ Len(stdout) = 1 /\ stdout[1][1] = "rename "

\* C3: the loop is left only when the channel is closed and empty, and then
\* with "Notify has crashed" and exit status 1; no received record ends it;
\* no exit status is ever 0; and once the channel is closed the process does
\* reach that end.
C3_FatalOnlyOnStreamEnd ==
    /\ [][pc = "running" /\ pc' # "running" =>
            /\ chan = <<>> /\ ~tx_alive
            /\ received' = received
            /\ pc' = "terminated"
            /\ exit_status' = <<1>>]_vars
    /\ [](exit_status # <<0>>)
    /\ [](pc = "running" => exit_status = <<>>)
    /\ ((pc = "running" /\ ~tx_alive) ~> (pc = "terminated" /\ exit_status = <<1>>))

\* The process has ended after the channel closed, having received an Error
\* record on the way.
C3_Witness ==
    /\ pc = "terminated"
    /\ exit_status = <<1>>
    /\ \E i \in DOMAIN received : received[i].tag = "Error"

\* C4: a received Error record adds exactly one line to standard error,
\* reporting its message and its optional path, and changes nothing else:
\* standard output, the settings, the loop and the events still in the
\* channel are as they were.
C4_ErrorIsLocal ==
    [][Received /\ Last(received').tag = "Error" =>
          /\ Len(stderr') = Len(stderr) + 1
          /\ SubSeq(stderr', 1, Len(stderr)) = stderr
          /\ ReportedError(Last(stderr')) =
                [message |-> Last(received').error, path |-> Last(received').path]
          /\ stdout' = stdout
          /\ chan' = Tail(chan)
          /\ UNCHANGED <<pc, settings, tx_alive, exit_status>>]_vars

\* An Error record with a path was received, and an event received after it
\* was delivered.
C4_Witness ==
    \E i \in DOMAIN received :
        /\ received[i].tag = "Error"
        /\ received[i].path # None
        /\ i < Len(received)
        /\ IsWanted(received[i + 1])
        /\ Len(stdout) = 1
        /\ Len(stderr) = 1

\* C5: a received NoticeWrite, NoticeRemove or Rescan changes neither
\* standard output nor standard error.
C5_NoticesAreSilent ==
    [][Received /\ Last(received').tag \in {"NoticeWrite", "NoticeRemove", "Rescan"} =>
          stdout' = stdout /\ stderr' = stderr]_vars

\* All three kinds were received with every kind asked for, and both streams
\* are empty.
C5_Witness ==
    /\ {received[i].tag : i \in DOMAIN received} = {"NoticeWrite", "NoticeRemove", "Rescan"}
    /\ InterestedKinds = Events
    /\ stdout = <<>>
    /\ stderr = <<>>

\* C8: once the command line is parsed, if `all` is among the requested
\* operations (or none was given) interestedKinds is all five kinds and
\* every received logical event is on standard output, unchanged and in
\* order; otherwise interestedKinds is exactly the kinds named.
C8_AllExpands ==
    settings # <<>> =>
        IF "all" \in Requested
        THEN /\ InterestedKinds = Events
             /\ Delivered = LogicalEvents(SelectSeq(received, IsLogical))
        ELSE InterestedKinds = {KindNamed[o] : o \in Requested}

\* No operation was given and a Rename was delivered.
C8_Witness ==
    /\ argv.operations = <<>>
    /\ \E i \in DOMAIN stdout : Delivered[i].kind = "Rename"

\* C9: standard output reports exactly the received events whose kind is in
\* interestedKinds, in the order they were received, and receiving an event
\* never changes the settings.
C9_FilterKeepsOrder ==
    /\ [](Delivered = LogicalEvents(SelectSeq(received, IsWanted)))
    /\ [][Received => settings' = settings]_vars

\* Two different events were delivered and a third one was not.
C9_Witness ==
    /\ Len(received) = 3
    /\ Len(stdout) = 2
    /\ stdout[1] # stdout[2]

\* C10: a received event adds at most one line in total, to one of the two
\* streams.
C10_AtMostOneRecord ==
    [][Received =>
          /\ Len(stdout') + Len(stderr') =< Len(stdout) + Len(stderr) + 1
          /\ stdout' = stdout \/ stderr' = stderr]_vars

\* The configured list holds Write twice and a Write was delivered once.
C10_Witness ==
    /\ settings # <<>>
    /\ \E i, j \in DOMAIN settings[1].events :
          i # j /\ settings[1].events[i] = "Write" /\ settings[1].events[j] = "Write"
    /\ received # <<>> /\ Last(received).tag = "Write"
    /\ Len(stdout) = 1

====
